---- MODULE Spec2Model ----
(***************************************************************************)
(* Model of the weekly-report pipeline of server.py: get_week_range,       *)
(* get_report_path, check_report_exists, save_report, the config helpers   *)
(* and generate_weekly_status as call_tool runs it: the Jira client is     *)
(* initialised, then JiraMCPServer._generate_weekly_status.                *)
(*                                                                         *)
(* Texts.  A date string is the sequence of its three "-"-separated fields,*)
(* each field the sequence of its decimal digits: "2024-01-10" is          *)
(* <<<<2,0,2,4>>, <<0,1>>, <<1,0>>>>.  None and the empty string are both  *)
(* the empty sequence: every test the code makes on an optional string is  *)
(* a truthiness test (if start_date:, if not github_token:, ...).          *)
(***************************************************************************)
EXTENDS Integers, Sequences, FiniteSets, TLC

VARIABLES
    wr,           \* the get_week_range call under examination: arguments, clock, outcome
    rp,           \* the get_report_path calls under examination: arguments, outcome
    st,           \* the save_report / check_report_exists calls under examination
    mg,           \* the merge_config_with_defaults call under examination
    ld,           \* the load_config_with_overrides call under examination
    race,         \* two server processes saving a report for one window
    reportsDir,   \* whether the directory <server_dir>/Reports exists
    files,        \* the report files under Reports: path -> stored text
    unreadable,   \* the report files that cannot be opened for reading
    temps,        \* the temporary config files on disk: location -> document
    tempSeq,      \* number of names mkstemp has handed out
    pc,           \* where _generate_weekly_status stands
    args,         \* the arguments of the running call that it has read so far
    loc,          \* the local variables of the running call
    result,       \* what the call returned
    trace,        \* what the running call has done to the outside, in order
    prev,         \* the call before the running one: arguments, result, trace
    before,       \* the disk as the running call found it
    jira_client,  \* self.jira_client is set
    again,        \* whether the running call repeats the one before it
    world,        \* what the calls have seen of the process' surroundings
    faults        \* number of operating-system failures so far

None == <<>>

\* ---------------------------------------------------------------- bounds
\* Number of consecutive calendar days the dates are drawn from, starting at
\* 2023-12-20 (the range crosses a year boundary and holds the window
\* 2024-01-10 / 2024-01-03).
NumDays == 28
\* Number of consecutive get_report_path calls examined.
MaxPathCalls == 2
\* Number of failures of operating-system operations (temp files, report
\* file) in one run of the server.
MaxFaults == 1

\* ------------------------------------------------------- calendar (datetime)
IsLeap(y) == (y % 4 = 0) /\ ((y % 100 # 0) \/ (y % 400 = 0))

DaysInMonth(y, m) ==
    IF m = 2 THEN (IF IsLeap(y) THEN 29 ELSE 28)
    ELSE IF m \in {4, 6, 9, 11} THEN 30 ELSE 31

RECURSIVE DaysBeforeMonth(_, _)
DaysBeforeMonth(y, m) ==
    IF m = 1 THEN 0 ELSE DaysBeforeMonth(y, m - 1) + DaysInMonth(y, m - 1)

DaysBeforeYear(y) ==
    LET p == y - 1 IN p * 365 + (p \div 4) - (p \div 100) + (p \div 400)

\* date.toordinal(): day 1 is 0001-01-01.
YmdToOrd(y, m, d) == DaysBeforeYear(y) + DaysBeforeMonth(y, m) + d

\* date.fromordinal(): the year, month and day of a day number.
OrdToYmd(n) ==
    LET n0   == n - 1
        n400 == n0 \div 146097
        r400 == n0 % 146097
        n100 == r400 \div 36524
        r100 == r400 % 36524
        n4   == r100 \div 1461
        r4   == r100 % 1461
        n1   == r4 \div 365
        r1   == r4 % 365
        year == n400 * 400 + 1 + n100 * 100 + n4 * 4 + n1
    IN  IF n1 = 4 \/ n100 = 4
        THEN [y |-> year - 1, m |-> 12, d |-> 31]
        ELSE LET m == CHOOSE k \in 1..12 :
                        /\ DaysBeforeMonth(year, k) <= r1
                        /\ r1 < DaysBeforeMonth(year, k) + DaysInMonth(year, k)
             IN  [y |-> year, m |-> m, d |-> r1 - DaysBeforeMonth(year, m) + 1]

\* datetime.weekday(): Monday is 0, Sunday is 6.
Weekday(n) == (n + 6) % 7

\* strftime('%A')
DayName(n) ==
    LET names == <<"Monday", "Tuesday", "Wednesday", "Thursday",
                   "Friday", "Saturday", "Sunday">>
    IN  names[Weekday(n) + 1]

\* ------------------------------------------------- strptime / strftime
RECURSIVE Value(_)
\* The number a sequence of decimal digits writes.
Value(ds) ==
    IF ds = <<>> THEN 0 ELSE Value(SubSeq(ds, 1, Len(ds) - 1)) * 10 + ds[Len(ds)]

RECURSIVE Pow10(_)
Pow10(k) == IF k = 0 THEN 1 ELSE 10 * Pow10(k - 1)

\* n written with exactly w digits, zero-padded (%Y, %m, %d of strftime).
Digits(n, w) == [i \in 1..w |-> (n \div Pow10(w - i)) % 10]

\* strptime(s, "%Y-%m-%d") accepts four year digits, a month 1..12 and a day
\* 1..31 of one or two digits each, and then requires the day to exist.
Parses(s) ==
    /\ Len(s) = 3
    /\ Len(s[1]) = 4 /\ Value(s[1]) >= 1
    /\ Len(s[2]) \in 1..2 /\ Value(s[2]) \in 1..12
    /\ Len(s[3]) \in 1..2
    /\ Value(s[3]) \in 1..DaysInMonth(Value(s[1]), Value(s[2]))

\* datetime.strptime(s, "%Y-%m-%d"), as a day number (the time of day is 00:00).
Strptime(s) == YmdToOrd(Value(s[1]), Value(s[2]), Value(s[3]))

\* datetime.strftime("%Y-%m-%d")
Strftime(n) ==
    LET c == OrdToYmd(n) IN <<Digits(c.y, 4), Digits(c.m, 2), Digits(c.d, 2)>>

\* ------------------------------------------------------------ inputs
FirstOrdinal == YmdToOrd(2023, 12, 20)
Days == FirstOrdinal .. (FirstOrdinal + NumDays - 1)

\* A date string without the zero padding of month and day ("2024-1-3").
Unpadded(s) ==
    LET strip(f) == IF f[1] = 0 THEN <<f[2]>> ELSE f
    IN  <<s[1], strip(s[2]), strip(s[3])>>

\* Strings no calendar day writes: strptime raises ValueError on them.
BadDateStrings ==
    { <<<<2,0,2,4>>, <<0,2>>, <<3,0>>>>,      \* 2024-02-30
      <<<<2,0,2,4>>, <<1,3>>, <<0,1>>>>,      \* 2024-13-01
      <<<<2,4>>, <<0,1>>, <<1,0>>>> }         \* 24-01-10

DateStrings ==
    {Strftime(n) : n \in Days} \cup {Unpadded(Strftime(n)) : n \in Days}

DateInputs == {None} \cup DateStrings \cup BadDateStrings

\* ------------------------------------------------------- get_week_range
\* Outcome of get_week_range: the returned pair, or the ValueError raised.
Returned(s, e) ==
    [raised |-> FALSE, start |-> s, end |-> e, why |-> "", date |-> None, day |-> ""]
ValueError(why, date, day) ==
    [raised |-> TRUE, start |-> None, end |-> None, why |-> why, date |-> date, day |-> day]

\* start.weekday() != 2 (with its mutant: Wednesday taken as day 3, the
\* isoweekday numbering).
StartWeekdayOk_Iso(n) == Weekday(n) = 3
StartWeekdayOk(n) == Weekday(n) = 2

\* end.weekday() != 1 (with its mutant: the end date is not validated).
EndWeekdayOk_Unchecked(n) == TRUE
EndWeekdayOk(n) == Weekday(n) = 1

\* end = start - timedelta(days=7) (with its mutant: an inclusive 7-day week).
DefaultEnd_Inclusive(start) == start - 6
DefaultEnd(start) == start - 7

\* (With its mutant: a window given whole must span exactly 7 days.)
get_week_range_SevenDays(start_date, end_date, now) ==
    IF start_date # None /\ ~Parses(start_date)
    THEN ValueError("does not match format", start_date, "")
    ELSE IF start_date # None /\ ~StartWeekdayOk(Strptime(start_date))
    THEN ValueError("start_date must be a Wednesday", start_date,
                    DayName(Strptime(start_date)))
    ELSE LET start == IF start_date # None THEN Strptime(start_date) ELSE now
         IN  IF end_date # None /\ ~Parses(end_date)
             THEN ValueError("does not match format", end_date, "")
             ELSE IF end_date # None /\ ~EndWeekdayOk(Strptime(end_date))
             THEN ValueError("end_date must be a Tuesday", end_date,
                             DayName(Strptime(end_date)))
             ELSE IF end_date # None /\ start - Strptime(end_date) # 7
             THEN ValueError("window must span 7 days", end_date, "")
             ELSE LET end == IF end_date # None THEN Strptime(end_date)
                                                ELSE DefaultEnd(start)
                  IN  Returned(Strftime(start), Strftime(end))

get_week_range(start_date, end_date, now) ==
    IF start_date # None /\ ~Parses(start_date)
    THEN ValueError("does not match format", start_date, "")
    ELSE IF start_date # None /\ ~StartWeekdayOk(Strptime(start_date))
    THEN ValueError("start_date must be a Wednesday", start_date,
                    DayName(Strptime(start_date)))
    ELSE LET start == IF start_date # None THEN Strptime(start_date) ELSE now
         IN  IF end_date # None /\ ~Parses(end_date)
             THEN ValueError("does not match format", end_date, "")
             ELSE IF end_date # None /\ ~EndWeekdayOk(Strptime(end_date))
             THEN ValueError("end_date must be a Tuesday", end_date,
                             DayName(Strptime(end_date)))
             ELSE LET end == IF end_date # None THEN Strptime(end_date)
                                                ELSE DefaultEnd(start)
                  IN  Returned(Strftime(start), Strftime(end))

\* ------------------------------------------------------- get_report_path
\* A path below <server_dir>/Reports; the file name is kept as its parts
\* f"Weekly_Report_{first}_to_{second}.md".
ReportFile(first, second) ==
    [dir |-> "Reports", prefix |-> "Weekly_Report_", first |-> first,
     sep |-> "_to_", second |-> second, ext |-> ".md"]

\* filename = f"Weekly_Report_{start_date}_to_{end_date}.md" (with its mutant:
\* the earlier date first, as test_report_caching expects).
ReportFileName_EarlierFirst(start_date, end_date) == ReportFile(end_date, start_date)
ReportFileName(start_date, end_date) == ReportFile(start_date, end_date)

\* reports_dir.mkdir(exist_ok=True): creates the directory when it is absent
\* and raises nothing when it is already there.
Mkdir(dirExists) == [raised |-> FALSE, exists |-> TRUE]

\* get_report_path: the directory is made, then the path is built.
get_report_path(start_date, end_date, dirExists) ==
    LET mk == Mkdir(dirExists)
    IN  [raised |-> mk.raised, dir |-> mk.exists,
         path |-> IF mk.raised THEN ReportFile(None, None)
                  ELSE ReportFileName(start_date, end_date)]

\* ------------------------------------------------------------------ texts
\* A text is a sequence of tokens.  A token is a chunk of literal characters
\* holding neither "\r" nor "\n", a date written YYYY-MM-DD, or one of the
\* characters "\r" and "\n" alone, so that what reading a file in text mode
\* does to line endings can be computed.
Lit(s)     == [lit |-> s, date |-> None]
DateTok(d) == [lit |-> "date", date |-> d]
CR == Lit("\\r")
LF == Lit("\\n")

\* f.read() on a file opened with open(path, 'r'): universal newlines, each
\* "\r\n" and each lone "\r" is delivered as "\n" (with its mutant: newlines
\* delivered as stored).
RECURSIVE ReadText(_)
ReadText_Raw(t) == t
ReadText(t) ==
    IF t = <<>> THEN <<>>
    ELSE IF t[1] = CR
         THEN IF Len(t) >= 2 /\ t[2] = LF
              THEN <<LF>> \o ReadText(SubSeq(t, 3, Len(t)))
              ELSE <<LF>> \o ReadText(Tail(t))
         ELSE <<t[1]>> \o ReadText(Tail(t))

\* f.write(content) on a file opened with open(path, 'w') on the POSIX
\* platform of the server: "\n" is written as "\n", nothing is translated.
WriteText(t) == t

\* len(text), counted in tokens.
TextLen(t) == Len(t)

\* ---------------------------------------------------- check_report_exists
\* report_path.exists(), then open and read; a failing read is logged and
\* None is returned.  None is also what an absent file gives.  (With its
\* mutants: the read is taken to succeed always; no stored report is ever
\* found.)
check_report_exists_Unguarded(start_date, end_date, dirExists, fs, noRead) ==
    LET p == get_report_path(start_date, end_date, dirExists)
    IN  [dir |-> p.dir,
         content |-> IF p.path \in DOMAIN fs THEN ReadText(fs[p.path]) ELSE None,
         found |-> p.path \in DOMAIN fs]
check_report_exists_Absent(start_date, end_date, dirExists, fs, noRead) ==
    [dir |-> get_report_path(start_date, end_date, dirExists).dir,
     content |-> None, found |-> FALSE]
check_report_exists(start_date, end_date, dirExists, fs, noRead) ==
    LET p == get_report_path(start_date, end_date, dirExists)
    IN  [dir |-> p.dir,
         content |-> IF p.path \in DOMAIN fs /\ p.path \notin noRead
                     THEN ReadText(fs[p.path]) ELSE None,
         found |-> p.path \in DOMAIN fs /\ p.path \notin noRead]

\* ------------------------------------------------------------ save_report
\* How open(report_path, 'w') / f.write can end: written; open failed (the
\* file is as before); write failed after open truncated the file.
SaveOutcomes == {"written", "open failed", "write failed"}

\* (With its mutant: the failure is logged and not raised again.)
save_report_Swallowing(content, start_date, end_date, dirExists, fs, outcome) ==
    LET p == get_report_path(start_date, end_date, dirExists)
        put(t) == [q \in DOMAIN fs \cup {p.path} |-> IF q = p.path THEN t ELSE fs[q]]
    IN  [dir |-> p.dir,
         raised |-> FALSE,
         path |-> p.path,
         fs |-> CASE outcome = "written" -> put(WriteText(content))
                  [] outcome = "write failed" -> put(<<>>)
                  [] OTHER -> fs]

save_report(content, start_date, end_date, dirExists, fs, outcome) ==
    LET p == get_report_path(start_date, end_date, dirExists)
        put(t) == [q \in DOMAIN fs \cup {p.path} |-> IF q = p.path THEN t ELSE fs[q]]
    IN  [dir |-> p.dir,
         raised |-> outcome # "written",
         path |-> p.path,
         fs |-> CASE outcome = "written" -> put(WriteText(content))
                  [] outcome = "write failed" -> put(<<>>)
                  [] OTHER -> fs]

\* --------------------------------------------------------- configuration
\* A YAML value: a scalar, or a mapping from keys to values.
Scalar(v) == [kind |-> "scalar", v |-> v, items |-> <<>>]
Map(f)    == [kind |-> "map", v |-> "", items |-> f]
EmptyMap  == Map(<<>>)
IsMap(x)  == x.kind = "map"
\* bool(x) of a configuration value: an empty mapping is falsy.
Truthy(x) == IF IsMap(x) THEN DOMAIN x.items # {} ELSE TRUE

Sources == {"jira", "github", "team"}

\* A configuration file that is absent, or that yaml.safe_load fails on.
NoConfig  == [state |-> "absent", doc |-> EmptyMap]
BadConfig == [state |-> "unparsable", doc |-> EmptyMap]
ConfigFile(doc) == [state |-> "ok", doc |-> doc]

\* if path.exists(): try: yaml.safe_load(f) or {} except: (logged) -- the
\* loaded document, {} when the file is absent, unparsable or empty.
LoadYaml(file) == IF file.state = "ok" /\ Truthy(file.doc) THEN file.doc ELSE EmptyMap

\* load_config_with_overrides: the three files, then for each override key
\* config[key].update(value) when the key is one of the three sources (which
\* raises when value is no mapping), config[key] = value otherwise.
load_config_with_overrides(config_overrides, dir) ==
    LET base == [k \in Sources |-> LoadYaml(dir[k])]
        ov   == config_overrides
        bad  == {k \in DOMAIN ov : k \in Sources /\ ~IsMap(ov[k])}
        upd(k) == Map([j \in DOMAIN base[k].items \cup DOMAIN ov[k].items |->
                          IF j \in DOMAIN ov[k].items THEN ov[k].items[j]
                          ELSE base[k].items[j]])
    IN  [raised |-> bad # {},
         config |-> IF bad # {} THEN <<>>
                    ELSE [k \in Sources \cup DOMAIN ov |->
                            IF k \notin DOMAIN ov THEN base[k]
                            ELSE IF k \in Sources THEN upd(k) ELSE ov[k]]]

\* deep_update(base, updates) of merge_config_with_defaults.
RECURSIVE deep_update(_, _)
\* (With its mutant: dict.update, one level deep.)
deep_update_Shallow(base, updates) ==
    [k \in DOMAIN base \cup DOMAIN updates |->
        IF k \in DOMAIN updates THEN updates[k] ELSE base[k]]
deep_update(base, updates) ==
    [k \in DOMAIN base \cup DOMAIN updates |->
        IF k \notin DOMAIN updates THEN base[k]
        ELSE IF IsMap(updates[k]) /\ k \in DOMAIN base /\ IsMap(base[k])
             THEN Map(deep_update(base[k].items, updates[k].items))
             ELSE updates[k]]

\* merge_config_with_defaults(config_overrides, default_config_path, config_key)
merge_config_with_defaults(config_overrides, file, config_key) ==
    LET config == LoadYaml(file)
    IN  IF config_key \in DOMAIN config_overrides /\ IsMap(config_overrides[config_key])
        THEN Map(deep_update(config.items, config_overrides[config_key].items))
        ELSE config

\* create_temp_config_file: how mkstemp / yaml.dump can end.  "created": the
\* path is returned; "mkstemp failed": nothing was created, the exception is
\* re-raised; "dump failed": the file exists, the exception is re-raised and
\* the caller never learns the path.
TempOutcomes == {"created", "mkstemp failed", "dump failed"}

\* A config file location handed to a collaborator: the default file of a
\* source under <server_dir>/config, or a file mkstemp made.
DefaultRef(source) == [kind |-> "default", name |-> source, n |-> 0]
TempRef(prefix, n) == [kind |-> "temp", name |-> prefix, n |-> n]
NoRef              == [kind |-> "none", name |-> "", n |-> 0]

create_temp_config_file(config_dict, prefix, seq, onDisk, outcome) ==
    LET path == TempRef(prefix, seq + 1)
        put(doc) == [q \in DOMAIN onDisk \cup {path} |-> IF q = path THEN doc ELSE onDisk[q]]
    IN  [raised |-> outcome # "created",
         path |-> path,
         seq |-> IF outcome = "mkstemp failed" THEN seq ELSE seq + 1,
         temps |-> CASE outcome = "created" -> put(config_dict)
                     [] outcome = "dump failed" -> put(EmptyMap)
                     [] OTHER -> onDisk]

\* ------------------------------------------------------- report assembly
\* DEFAULT_SUMMARY_PROMPT, with its {report_content} replacement field.
Placeholder == Lit("{report_content}")
DEFAULT_SUMMARY_PROMPT ==
    << Lit("Based on the following weekly team report, generate an executive summary highlighting:"),
       LF, LF, Lit("1. Key Accomplishments ... 4. Notable Trends"), LF, LF,
       Lit("Keep the summary concise (3-5 paragraphs) and action-oriented."),
       LF, LF, Lit("---"), LF, LF, Placeholder, LF, LF, Lit("---"), LF, LF,
       Lit("Please provide the executive summary:") >>

\* A replacement field other than {report_content}: str.format raises
\* KeyError on it.
UnknownField == Lit("{unknown}")

RECURSIVE Substitute(_, _)
Substitute(t, content) ==
    IF t = <<>> THEN <<>>
    ELSE (IF t[1] = Placeholder THEN content ELSE <<t[1]>>) \o Substitute(Tail(t), content)

\* prompt.format(report_content=combined_report) (with its mutant: unknown
\* fields are left as they are)
Format_Lenient(prompt, content) ==
    [raised |-> FALSE, text |-> Substitute(prompt, content)]
Format(prompt, content) ==
    [raised |-> \E i \in 1..Len(prompt) : prompt[i] = UnknownField,
     text |-> Substitute(prompt, content)]

Rule == <<LF, LF, Lit("---"), LF, LF>>

\* (With the mutant of combined_report: the GitHub section first.)
CombinedReport_GithubFirst(calc_start_date, calc_end_date, jira_report, github_report, now) ==
    << Lit("# Weekly Team Status Report"), LF, Lit("## Period: "),
       DateTok(calc_start_date), Lit(" to "), DateTok(calc_end_date) >>
    \o Rule \o github_report \o Rule \o jira_report \o Rule
    \o << Lit("*Report generated: "), DateTok(Strftime(now)), Lit("*"), LF >>

\* combined_report = f"""# Weekly Team Status Report ... """
CombinedReport(calc_start_date, calc_end_date, jira_report, github_report, now) ==
    << Lit("# Weekly Team Status Report"), LF, Lit("## Period: "),
       DateTok(calc_start_date), Lit(" to "), DateTok(calc_end_date) >>
    \o Rule \o jira_report \o Rule \o github_report \o Rule
    \o << Lit("*Report generated: "), DateTok(Strftime(now)), Lit("*"), LF >>

\* summary_text = f"""...## Executive Summary ... {prompt} ..."""
SummaryText(prompt) ==
    Rule \o << Lit("## Executive Summary"), LF, LF,
               Lit("> **Note:** To generate an AI-powered executive summary, process the above report with the following prompt:"),
               LF, LF >>
    \o prompt \o <<LF, LF>>

\* The "Generate AI summary if requested" block: the report as it is after it.
Enrich(combined_report, generate_summary, summary_prompt) ==
    IF ~generate_summary THEN combined_report
    ELSE LET prompt == IF summary_prompt # None THEN summary_prompt
                       ELSE DEFAULT_SUMMARY_PROMPT
             prompt_with_report == Format(prompt, combined_report)
         IN  IF prompt_with_report.raised THEN combined_report
             ELSE combined_report \o SummaryText(prompt)

\* f"**Error generating {source} report:** {str(e)}\n\n"
ErrorMarker(source, message) ==
    << Lit("**Error generating "), Lit(source), Lit(" report:** ") >> \o message \o <<LF, LF>>

\* ------------------------------------------------------- the tool result
\* The TextContent a call returns, kept as the fields its text is made of.
Result(kind, file, size, body, names, err) ==
    [kind |-> kind, file |-> file, size |-> size, body |-> body,
     names |-> names, err |-> err]
NoFile   == ReportFile(None, None)
NoError  == Returned(None, None)
NoResult == Result("none", NoFile, 0, <<>>, <<>>, NoError)

\* f"Error: {str(e)}" for the ValueError of get_week_range
InvalidWindow(e) == Result("Error", NoFile, 0, <<>>, <<>>, e)
\* "**Found existing report (use regenerate=true to recreate):** ... {existing_report}"
FoundExisting(report_path, existing_report) ==
    Result("Found existing report", report_path, 0, existing_report, <<>>, NoError)
\* "Error: Missing required credentials: {', '.join(missing_creds)} ..."
MissingCredentials(missing_creds) ==
    Result("Error: Missing required credentials", NoFile, 0, <<>>, missing_creds, NoError)
\* "Error: Failed to import team-reports library ..."
ImportFailed == Result("Error: Failed to import team-reports library", NoFile, 0, <<>>, <<>>, NoError)
\* "Error: Failed to save report: ... Report content: {combined_report}"
StorageError(combined_report) ==
    Result("Error: Failed to save report", NoFile, 0, combined_report, <<>>, NoError)
\* "**Weekly status report generated successfully!** ... {combined_report}"
Success(report_path, combined_report) ==
    Result("Weekly status report generated successfully", report_path,
           TextLen(combined_report), combined_report, <<>>, NoError)
\* The outermost handler: "Error generating weekly status: {str(e)}"
Unexpected == Result("Error generating weekly status", NoFile, 0, <<>>, <<>>, NoError)
\* No TextContent: an exception leaves call_tool.
Propagated == Result("exception", NoFile, 0, <<>>, <<>>, NoError)

\* ============================================ _generate_weekly_status
\* ---------------------------------------------------------------- inputs
Wed10 == <<<<2,0,2,4>>, <<0,1>>, <<1,0>>>>      \* a Wednesday
Thu11 == <<<<2,0,2,4>>, <<0,1>>, <<1,1>>>>      \* a Thursday
Tue09 == <<<<2,0,2,4>>, <<0,1>>, <<0,9>>>>      \* a Tuesday
Mon08 == <<<<2,0,2,4>>, <<0,1>>, <<0,8>>>>      \* a Monday

\* The (start_date, end_date) arguments: both left out, a valid explicit
\* window, a start that is not a Wednesday, an end that is not a Tuesday.
WindowInputs == {<<None, None>>, <<Wed10, Tue09>>, <<Thu11, None>>, <<Wed10, Mon08>>}
\* What datetime.now() can be while a call runs.
ClockInputs == {Strptime(Wed10)}

Token == <<Lit("ghp_parameter")>>
TokenInputs == {None, Token}

CustomPrompt    == <<Lit("Summarise for the board:"), LF, Placeholder>>
MalformedPrompt == <<Lit("Summarise "), UnknownField>>
PromptInputs == {None, CustomPrompt, MalformedPrompt}

OverrideInputs ==
    { <<>>,
      ("jira" :> Map(("base_jql" :> Scalar("project = X")))),
      ("github" :> Map(("repos" :> Scalar("org/repo")))),
      ("jira" :> Scalar("5")) }

ArgSets ==
    [github_token |-> TokenInputs, regenerate |-> BOOLEAN, generate_summary |-> BOOLEAN,
     summary_prompt |-> PromptInputs, config_overrides |-> OverrideInputs]

\* The environment variables that can be set (non-empty).
Creds == <<"JIRA_SERVER", "JIRA_EMAIL", "JIRA_API_TOKEN", "GITHUB_TOKEN">>

\* The default config file of a source.
TeamConfig == ConfigFile(Map(("base_jql" :> Scalar("project = TEAM"))))
ConfigFiles == {NoConfig, BadConfig, TeamConfig}
\* The config directory of the working directory, as load_config_with_overrides
\* finds it.
ConfigDirs == {[s \in Sources |-> f] : f \in ConfigFiles}

\* What the process finds around it: its environment variables, whether the
\* team_reports library is installed, the default config files.
WorldSets ==
    [env |-> SUBSET {Creds[i] : i \in 1..Len(Creds)},
     installed |-> BOOLEAN,
     jira |-> ConfigFiles, github |-> {NoConfig, TeamConfig}]

\* What a collaborator can do: return a report, or raise.
\* Jira descriptions carry the line ends their authors typed.
CrlfJira  == <<Lit("## Jira"), CR, LF, Lit("description with CRLF"), CR>>
JiraOutcomes ==
    { [raised |-> FALSE, text |-> CrlfJira],
      [raised |-> TRUE, text |-> <<Lit("JiraError HTTP 401")>>] }
GithubOutcomes ==
    { [raised |-> FALSE, text |-> <<Lit("## GitHub"), LF, Lit("5 pull requests merged")>>],
      [raised |-> TRUE, text |-> <<Lit("Bad credentials")>>] }

\* The Reports directory as the server can find it when it starts: absent,
\* empty, or holding reports of earlier runs.
OldReport  == <<Lit("# Weekly Team Status Report"), LF, Lit("old")>>
CrlfReport == <<Lit("# Weekly Team Status Report"), CR, LF, Lit("old"), CR>>
PathDefaultEnd == ReportFile(Wed10, Strftime(DefaultEnd(Strptime(Wed10))))
PathTue09      == ReportFile(Wed10, Tue09)
Disk(dir, fs, noRead) == [dir |-> dir, files |-> fs, unreadable |-> noRead]
InitialDisks ==
    { Disk(FALSE, <<>>, {}),
      Disk(TRUE, (PathDefaultEnd :> <<>>), {}),
      Disk(TRUE, (PathDefaultEnd :> OldReport), {}),
      Disk(TRUE, (PathDefaultEnd :> CrlfReport), {}),
      Disk(TRUE, (PathDefaultEnd :> OldReport), {PathDefaultEnd}),
      Disk(TRUE, (PathDefaultEnd :> OldReport) @@ (PathTue09 :> CrlfReport), {}) }

\* ------------------------------------------------------------ the state
LocInit ==
    [now |-> 0, calc_start_date |-> None, calc_end_date |-> None,
     jira_server |-> FALSE, jira_email |-> FALSE, jira_api_token |-> FALSE,
     github_token |-> FALSE,
     jira_config_file |-> NoRef, github_config_file |-> NoRef,
     temp_files_to_cleanup |-> <<>>, raising |-> FALSE,
     jira_report |-> <<>>, github_report |-> <<>>, combined_report |-> <<>>]

\* The disk: the Reports directory, the report files and the temp files.
Snapshot(dir, fs, noRead, tmp) ==
    [dir |-> dir, files |-> fs, unreadable |-> noRead, temps |-> tmp]

NoCall == [called |-> FALSE, args |-> <<>>, result |-> NoResult, trace |-> <<>>,
           before |-> Snapshot(FALSE, <<>>, {}, <<>>)]

\* One thing a call does to the outside: the operation and, for the
\* operations on config files, the file.
Event(op, ref) == [op |-> op, ref |-> ref]

\* A call to the outside, followed by the exception when one is raised in it.
Invocation(op, ref, raised) ==
    IF raised THEN <<Event(op, ref), Event("raised", ref)>> ELSE <<Event(op, ref)>>

\* An argument enters args when the handler first reads it.  Arguments never
\* change during a call, so these are the runs that choosing them all at the
\* call gives.  A repeated request (again) carries the arguments of the
\* request before it, but does not force regeneration.
ReadArg(name, v) ==
    /\ v \in (IF name \in DOMAIN args THEN {args[name]}
              ELSE IF again /\ name = "regenerate" THEN {FALSE}
              ELSE IF again /\ name \in DOMAIN prev.args THEN {prev.args[name]}
              ELSE ArgSets[name])
    /\ args' = (name :> v) @@ args

\* What the process finds around it enters world when a call first looks at
\* it, and stays: the environment of a process, the installed libraries and
\* the default config files are the same for every call.
Observe(name, v) ==
    /\ v \in (IF name \in DOMAIN world THEN {world[name]} ELSE WorldSets[name])
    /\ world' = (name :> v) @@ world

\* An operation of the operating system fails (mkstemp, yaml.dump, unlink,
\* open or write of the report): at most MaxFaults times in a run of the
\* server.
MayFail(failed) ==
    /\ failed => faults < MaxFaults
    /\ faults' = IF failed THEN faults + 1 ELSE faults

otherVars == <<wr, rp, st, mg, ld, race>>
diskVars  == <<reportsDir, files, unreadable, temps, tempSeq>>

\* ----------------------------------------------------------- the handler
\* call_tool, "if not self.jira_client:": where a generate_weekly_status
\* request starts.
Entry == IF jira_client THEN "ValidatingWindow" ELSE "InitialisingClient"

\* call_tool receives a generate_weekly_status request: the first one.
Call ==
    /\ pc = "idle"
    /\ \E now \in ClockInputs : loc' = [LocInit EXCEPT !.now = now]
    /\ pc' = Entry
    /\ args' = <<>>
    /\ result' = NoResult
    /\ trace' = <<>>
    /\ again' = FALSE
    /\ UNCHANGED <<diskVars, prev, before, jira_client, world, faults, otherVars>>

\* The caller that has got a report asks for it once more: the same request,
\* for the same window, without forcing regeneration.
CallAgain ==
    /\ pc = "done"
    /\ ~again
    /\ result.kind \in {FoundExisting(NoFile, <<>>).kind, Success(NoFile, <<>>).kind}
    /\ prev' = [called |-> TRUE, args |-> args, result |-> result, trace |-> trace,
                before |-> before]
    /\ before' = Snapshot(reportsDir, files, unreadable, temps)
    /\ \E now \in ClockInputs : loc' = [LocInit EXCEPT !.now = now]
    /\ pc' = Entry
    /\ args' = <<>>
    /\ result' = NoResult
    /\ trace' = <<>>
    /\ again' = TRUE
    /\ UNCHANGED <<diskVars, jira_client, world, faults, otherVars>>

\* How JIRA(server=..., token_auth=...) can end: it connects to the server.
ConnectOutcomes == {"connected", "failed"}

\* call_tool lines 552-554 and _init_jira_client: without a client the three
\* Jira variables are read and the client is made; a missing variable or a
\* failing connection raises, and the exception leaves call_tool, whose try
\* block starts after this.
InitialisingClient ==
    /\ pc = "InitialisingClient"
    /\ \E env \in WorldSets.env, outcome \in ConnectOutcomes :
         LET complete == {"JIRA_SERVER", "JIRA_EMAIL", "JIRA_API_TOKEN"} \subseteq env
         IN  /\ Observe("env", env)
             /\ ~complete => outcome = "failed"
             /\ jira_client' = (outcome = "connected")
             /\ IF outcome = "connected"
                THEN pc' = "ValidatingWindow" /\ result' = result
                ELSE pc' = "raised" /\ result' = Propagated
    /\ UNCHANGED <<diskVars, args, loc, trace, prev, before, again, faults, otherVars>>

\* Lines 966-970: get_week_range, its ValueError returned as "Error: ...".
ValidatingWindow ==
    /\ pc = "ValidatingWindow"
    /\ \E w \in (IF again THEN {<<prev.args.start_date, prev.args.end_date>>}
                 ELSE WindowInputs) :
         LET s == w[1]
             e == w[2]
             r == get_week_range(s, e, loc.now)
         IN  /\ args' = ("start_date" :> s) @@ ("end_date" :> e) @@ args
             /\ IF r.raised
                THEN /\ result' = InvalidWindow(r)
                     /\ pc' = "done"
                     /\ loc' = loc
                ELSE /\ loc' = [loc EXCEPT !.calc_start_date = r.start,
                                           !.calc_end_date = r.end]
                     /\ pc' = "CheckingCache"
                     /\ result' = result
    /\ UNCHANGED <<diskVars, trace, prev, before, jira_client, again, world, faults, otherVars>>

\* if not regenerate: (with its mutant: the cache is consulted always)
SkipsCache_Never(regenerate) == FALSE
SkipsCache(regenerate) == regenerate

\* if existing_report: (with its mutant: is not None)
IsHit_NotNone(found, existing_report) == found
IsHit(found, existing_report) == existing_report # <<>>

\* Lines 972-982: the stored report is returned when there is one.
CheckingCache ==
    /\ pc = "CheckingCache"
    /\ \E regenerate \in BOOLEAN :
         /\ ReadArg("regenerate", regenerate)
         /\ IF SkipsCache(regenerate)
            THEN /\ pc' = "LoadingConfig"
                 /\ UNCHANGED <<reportsDir, result, trace>>
            ELSE LET c == check_report_exists(loc.calc_start_date, loc.calc_end_date,
                                              reportsDir, files, unreadable)
                     p == get_report_path(loc.calc_start_date, loc.calc_end_date, c.dir)
                 IN  /\ reportsDir' = c.dir
                     /\ trace' = trace \o <<Event("check_report_exists", NoRef)>>
                     /\ IF IsHit(c.found, c.content)
                        THEN /\ result' = FoundExisting(p.path, c.content)
                             /\ pc' = "done"
                        ELSE /\ result' = result
                             /\ pc' = "LoadingConfig"
    /\ UNCHANGED <<files, unreadable, temps, tempSeq, loc, prev, before, jira_client, again, world, faults,
                   otherVars>>

\* Lines 984-985: load_config_with_overrides reads the config directory of
\* the working directory; what it raises reaches the outermost handler.
LoadingConfig ==
    /\ pc = "LoadingConfig"
    /\ \E ov \in OverrideInputs, dir \in ConfigDirs :
         /\ ReadArg("config_overrides", ov)
         /\ IF load_config_with_overrides(ov, dir).raised
            THEN result' = Unexpected /\ pc' = "done"
            ELSE result' = result /\ pc' = "ValidatingCredentials"
    /\ trace' = trace \o <<Event("load_config_with_overrides", NoRef)>>
    /\ UNCHANGED <<diskVars, loc, prev, before, jira_client, again, world, faults, otherVars>>

\* missing_creds, in the order the code appends the names.
MissingCreds(l) ==
    SelectSeq(Creds, LAMBDA c :
        \/ c = "JIRA_SERVER" /\ ~l.jira_server
        \/ c = "JIRA_EMAIL" /\ ~l.jira_email
        \/ c = "JIRA_API_TOKEN" /\ ~l.jira_api_token
        \/ c = "GITHUB_TOKEN" /\ ~l.github_token)

\* Lines 987-1012: the four credentials, from the environment and the
\* github_token argument.
ValidatingCredentials ==
    /\ pc = "ValidatingCredentials"
    /\ \E env \in WorldSets.env, token \in TokenInputs :
         LET l == [loc EXCEPT !.jira_server = "JIRA_SERVER" \in env,
                              !.jira_email = "JIRA_EMAIL" \in env,
                              !.jira_api_token = "JIRA_API_TOKEN" \in env,
                              !.github_token = IF token # None THEN TRUE
                                               ELSE "GITHUB_TOKEN" \in env]
         IN  /\ Observe("env", env)
             /\ ReadArg("github_token", token)
             /\ loc' = l
             /\ IF MissingCreds(l) # <<>>
                THEN result' = MissingCredentials(MissingCreds(l)) /\ pc' = "done"
                ELSE result' = result /\ pc' = "Importing"
    /\ UNCHANGED <<diskVars, trace, prev, before, jira_client, again, faults, otherVars>>

\* Lines 1014-1021: the team_reports library is imported, or is not there.
Importing ==
    /\ pc = "Importing"
    /\ \E installed \in BOOLEAN :
         /\ Observe("installed", installed)
         /\ IF installed
            THEN result' = result /\ pc' = "ResolvingJiraConfig"
            ELSE result' = ImportFailed /\ pc' = "done"
    /\ UNCHANGED <<diskVars, args, loc, trace, prev, before, jira_client, again, faults, otherVars>>

\* if config_overrides: merge_config_with_defaults(...); if <merged>:
\* create_temp_config_file(...) -- for one source.  Gives the config file the
\* collaborator will get, the files to clean up, and whether
\* create_temp_config_file raised.
\* if config_overrides: (with its mutant: the merge is made for every call)
OverridesGiven_Always(config_overrides) == TRUE
OverridesGiven(config_overrides) == DOMAIN config_overrides # {}

PrepareConfig(source, prefix, config_overrides, file, l, outcome) ==
    LET merged == merge_config_with_defaults(config_overrides, file, source)
        made   == create_temp_config_file(merged, prefix, tempSeq, temps, outcome)
    IN  IF OverridesGiven(config_overrides) /\ Truthy(merged)
        THEN [raised |-> made.raised, temps |-> made.temps, seq |-> made.seq,
              attempted |-> TRUE,
              config_file |-> IF made.raised THEN DefaultRef(source) ELSE made.path,
              cleanup |-> IF made.raised THEN l.temp_files_to_cleanup
                          ELSE Append(l.temp_files_to_cleanup, made.path)]
        ELSE [raised |-> FALSE, temps |-> temps, seq |-> tempSeq,
              attempted |-> FALSE,
              config_file |-> DefaultRef(source),
              cleanup |-> l.temp_files_to_cleanup]

\* Lines 1026-1041: the Jira config file, the default one or a temp file.
ResolvingJiraConfig ==
    /\ pc = "ResolvingJiraConfig"
    /\ \E file \in ConfigFiles, outcome \in TempOutcomes :
         LET r == PrepareConfig("jira", "jira_mcp_", args.config_overrides, file, loc, outcome)
         IN  /\ IF OverridesGiven(args.config_overrides)
                THEN Observe("jira", file)
                ELSE file = NoConfig /\ world' = world
             /\ outcome # "created" => r.attempted
             /\ MayFail(outcome # "created")
             /\ temps' = r.temps
             /\ tempSeq' = r.seq
             /\ loc' = [loc EXCEPT !.jira_config_file = r.config_file,
                                   !.github_config_file = DefaultRef("github"),
                                   !.temp_files_to_cleanup = r.cleanup,
                                   !.raising = r.raised]
             /\ trace' = IF r.attempted
                         THEN trace \o <<Event("create_temp_config_file", r.config_file)>>
                         ELSE trace
             /\ pc' = IF r.raised THEN "CleaningUp" ELSE "ResolvingGithubConfig"
    /\ UNCHANGED <<reportsDir, files, unreadable, args, result, prev, before, jira_client, again, otherVars>>

\* Lines 1043-1051: the GitHub config file.
ResolvingGithubConfig ==
    /\ pc = "ResolvingGithubConfig"
    /\ \E file \in ConfigFiles, outcome \in TempOutcomes :
         LET r == PrepareConfig("github", "github_mcp_", args.config_overrides, file, loc, outcome)
         IN  /\ IF OverridesGiven(args.config_overrides)
                THEN Observe("github", file)
                ELSE file = NoConfig /\ world' = world
             /\ outcome # "created" => r.attempted
             /\ MayFail(outcome # "created")
             /\ temps' = r.temps
             /\ tempSeq' = r.seq
             /\ loc' = [loc EXCEPT !.github_config_file = r.config_file,
                                   !.temp_files_to_cleanup = r.cleanup,
                                   !.raising = r.raised]
             /\ trace' = IF r.attempted
                         THEN trace \o <<Event("create_temp_config_file", r.config_file)>>
                         ELSE trace
             /\ pc' = IF r.raised THEN "CleaningUp" ELSE "GeneratingJira"
    /\ UNCHANGED <<reportsDir, files, unreadable, args, result, prev, before, jira_client, again, otherVars>>

\* except Exception as e: jira_report = <marker> (with its mutant: the
\* exception is not caught and leaves the try block)
JiraPropagates_Uncaught(raised) == raised
JiraPropagates(raised) == FALSE

\* Lines 1053-1069: WeeklyJiraSummary(...).generate_weekly_summary(...).
GeneratingJira ==
    /\ pc = "GeneratingJira"
    /\ \E o \in JiraOutcomes :
         /\ loc' = [loc EXCEPT !.jira_report = IF o.raised THEN ErrorMarker("Jira", o.text)
                                               ELSE o.text,
                               !.raising = JiraPropagates(o.raised)]
         /\ pc' = IF JiraPropagates(o.raised) THEN "CleaningUp" ELSE "GeneratingGithub"
         /\ trace' = trace \o Invocation("WeeklyJiraSummary", loc.jira_config_file, o.raised)
    /\ UNCHANGED <<diskVars, args, result, prev, before, jira_client, again, world, faults, otherVars>>

\* Lines 1071-1086: WeeklyGitHubSummary(...).generate_report(...).
GeneratingGithub ==
    /\ pc = "GeneratingGithub"
    /\ \E o \in GithubOutcomes :
         /\ loc' = [loc EXCEPT !.github_report =
                        IF o.raised THEN ErrorMarker("GitHub", o.text) ELSE o.text]
         /\ trace' = trace \o Invocation("WeeklyGitHubSummary", loc.github_config_file,
                                         o.raised)
    /\ pc' = "CleaningUp"
    /\ UNCHANGED <<diskVars, args, result, prev, before, jira_client, again, world, faults, otherVars>>

Range(q) == {q[i] : i \in 1..Len(q)}

\* Lines 1088-1096, the finally block: each listed temp file that exists is
\* unlinked; an unlink that raises is logged and the file stays.  Then the
\* exception in flight, if any, reaches the outermost handler.
CleaningUp ==
    /\ pc = "CleaningUp"
    /\ \E stuck \in SUBSET Range(loc.temp_files_to_cleanup) :
         /\ MayFail(stuck # {})
         /\ temps' = [q \in (DOMAIN temps \ Range(loc.temp_files_to_cleanup)) \cup stuck
                         |-> temps[q]]
    /\ trace' = trace \o [i \in 1..Len(loc.temp_files_to_cleanup) |->
                             Event("os.unlink", loc.temp_files_to_cleanup[i])]
    /\ IF loc.raising
       THEN result' = Unexpected /\ pc' = "done"
       ELSE result' = result /\ pc' = "Combining"
    /\ UNCHANGED <<reportsDir, files, unreadable, tempSeq, args, loc, prev, before, jira_client, again, world,
                   otherVars>>

\* Lines 1098-1140: the combined report and the summary block; the prompt
\* is read only when a summary is asked for.
Combining ==
    /\ pc = "Combining"
    /\ \E g \in BOOLEAN, sp \in PromptInputs :
         /\ g \in (IF again /\ "generate_summary" \in DOMAIN prev.args
                   THEN {prev.args.generate_summary} ELSE BOOLEAN)
         /\ sp \in (IF ~g THEN {None}
                    ELSE IF again /\ "summary_prompt" \in DOMAIN prev.args
                    THEN {prev.args.summary_prompt} ELSE PromptInputs)
         /\ args' = IF g THEN ("generate_summary" :> g) @@ ("summary_prompt" :> sp) @@ args
                    ELSE ("generate_summary" :> g) @@ args
         /\ loc' = [loc EXCEPT !.combined_report =
                        Enrich(CombinedReport(loc.calc_start_date, loc.calc_end_date,
                                              loc.jira_report, loc.github_report, loc.now),
                               g, sp)]
    /\ pc' = "Persisting"
    /\ UNCHANGED <<diskVars, result, trace, prev, before, jira_client, again, world, faults, otherVars>>

\* Lines 1142-1161: save_report; its failure is returned with the report.
Persisting ==
    /\ pc = "Persisting"
    /\ \E outcome \in SaveOutcomes :
         LET w == save_report(loc.combined_report, loc.calc_start_date,
                              loc.calc_end_date, reportsDir, files, outcome)
         IN  /\ MayFail(outcome # "written")
             /\ reportsDir' = w.dir
             /\ files' = w.fs
             /\ result' = IF w.raised THEN StorageError(loc.combined_report)
                          ELSE Success(w.path, loc.combined_report)
             /\ trace' = trace \o Invocation("save_report", NoRef, outcome # "written")
    /\ pc' = "done"
    /\ UNCHANGED <<unreadable, temps, tempSeq, args, loc, prev, before, jira_client, again, world, otherVars>>

\* ---------------------------------------------------- the two harnesses
\* Strings get_report_path is called with: the Wednesdays and Tuesdays of
\* the range, and the two dates of test_report_caching.
TestStart == <<<<2,0,2,4>>, <<1,1>>, <<1,3>>>>
TestEnd   == <<<<2,0,2,4>>, <<1,1>>, <<0,6>>>>
PathInputs ==
    {Strftime(n) : n \in {k \in Days : Weekday(k) \in {1, 2}}} \cup {TestStart, TestEnd}

pipeVars == <<files, unreadable, temps, tempSeq, pc, args, loc, result, trace, prev, before,
              jira_client, again,
              world, faults>>

\* The handler's own state, apart from the report files.
restVars == <<temps, tempSeq, pc, args, loc, result, trace, prev, before, jira_client, again,
              world, faults>>

\* No save_report call made yet.
StIdle == [phase |-> "idle", content |-> <<>>, start_date |-> None, end_date |-> None,
           raised |-> FALSE, path |-> ReportFile(None, None),
           asked |-> <<None, None>>, got |-> None, found |-> FALSE]

\* No merge_config_with_defaults call made yet.
MgIdle == [called |-> FALSE, config_overrides |-> <<>>, file |-> NoConfig,
           config_key |-> "", out |-> EmptyMap]

\* No load_config_with_overrides call made yet.
LdIdle == [called |-> FALSE, config_overrides |-> <<>>,
           dir |-> [k \in Sources |-> NoConfig], raised |-> FALSE, config |-> <<>>]

\* Two server processes of one installation (they share <server_dir>/Reports),
\* neither of which has started a run.
Procs == {1, 2}
RunIdle == [pc |-> "idle", text |-> <<>>, off |-> 0, out |-> NoResult]
RaceIdle == [run |-> [r \in Procs |-> RunIdle], last |-> 0]

WrIdle == [called |-> FALSE, start_date |-> None, end_date |-> None, now |-> 0,
           out |-> Returned(None, None)]

\* One call get_week_range(start_date, end_date); datetime.now() is read only
\* when start_date is falsy.
CallGetWeekRange ==
    /\ ~wr.called
    /\ \E s \in DateInputs, e \in DateInputs :
         \E now \in (IF s = None THEN Days ELSE {0}) :
            wr' = [called |-> TRUE, start_date |-> s, end_date |-> e, now |-> now,
                   out |-> get_week_range(s, e, now)]
    /\ UNCHANGED <<rp, st, mg, ld, race, reportsDir, pipeVars>>

\* One call get_report_path(start_date, end_date): the directory is made,
\* then the path is built.
CallGetReportPath ==
    /\ Len(rp) < MaxPathCalls
    /\ \E s \in PathInputs, e \in PathInputs :
         LET r == get_report_path(s, e, reportsDir)
         IN  /\ reportsDir' = r.dir
             /\ rp' = Append(rp, [start_date |-> s, end_date |-> e,
                                  dirBefore |-> reportsDir,
                                  raised |-> r.raised, out |-> r.path])
    /\ UNCHANGED <<wr, st, mg, ld, race, pipeVars>>

vars == <<wr, rp, st, mg, ld, race, reportsDir, pipeVars>>

\* The handler at rest on an empty disk.
Quiet ==
    /\ files = <<>> /\ unreadable = {} /\ temps = <<>> /\ tempSeq = 0
    /\ pc = "idle" /\ args = <<>> /\ loc = LocInit /\ result = NoResult
    /\ trace = <<>> /\ prev = NoCall /\ again = FALSE /\ world = <<>> /\ faults = 0
    /\ before = Snapshot(FALSE, <<>>, {}, <<>>)
    /\ jira_client = FALSE

InitWeek == wr = WrIdle /\ rp = <<>> /\ st = StIdle /\ mg = MgIdle /\ ld = LdIdle /\ race = RaceIdle /\ reportsDir = FALSE /\ Quiet
NextWeek == CallGetWeekRange
SpecWeek == InitWeek /\ [][NextWeek]_vars

InitPath ==
    wr = WrIdle /\ rp = <<>> /\ st = StIdle /\ mg = MgIdle /\ ld = LdIdle /\ race = RaceIdle /\ reportsDir \in BOOLEAN /\ Quiet
NextPath == CallGetReportPath
SpecPath == InitPath /\ [][NextPath]_vars

\* Contents save_report is called with: none, a report with "\n" line ends,
\* reports with "\r\n" and "\r" in them.
StoreTexts == {<<>>, OldReport, CrlfReport, CrlfJira}
\* Windows the two functions are called with: the one of test_report_caching
\* (test 3), one the initial disks hold a report for, one with a Tuesday end.
StoreWindows == {<<Wed10, Strftime(DefaultEnd(Strptime(Wed10)))>>, <<Wed10, Tue09>>,
                 <<TestStart, TestEnd>>}

\* One call save_report(content, start_date, end_date).
CallSaveReport ==
    /\ st.phase = "idle"
    /\ \E content \in StoreTexts, w \in StoreWindows, outcome \in SaveOutcomes :
         LET r == save_report(content, w[1], w[2], reportsDir, files, outcome)
         IN  /\ reportsDir' = r.dir
             /\ files' = r.fs
             /\ st' = [st EXCEPT !.phase = "saved", !.content = content,
                                 !.start_date = w[1], !.end_date = w[2],
                                 !.raised = r.raised, !.path = r.path]
    /\ UNCHANGED <<wr, rp, mg, ld, race, unreadable, restVars>>

\* One call check_report_exists(start_date, end_date), after the save.
CallCheckReportExists ==
    /\ st.phase = "saved"
    /\ \E w \in StoreWindows :
         LET c == check_report_exists(w[1], w[2], reportsDir, files, unreadable)
         IN  /\ reportsDir' = c.dir
             /\ st' = [st EXCEPT !.phase = "checked", !.asked = w,
                                 !.got = c.content, !.found = c.found]
    /\ UNCHANGED <<wr, rp, mg, ld, race, files, unreadable, restVars>>

InitStore ==
    /\ wr = WrIdle /\ rp = <<>> /\ st = StIdle /\ mg = MgIdle /\ ld = LdIdle /\ race = RaceIdle
    /\ \E d \in InitialDisks :
         reportsDir = d.dir /\ files = d.files /\ unreadable = d.unreadable
    /\ temps = <<>> /\ tempSeq = 0
    /\ pc = "idle" /\ args = <<>> /\ loc = LocInit /\ result = NoResult
    /\ trace = <<>> /\ prev = NoCall /\ again = FALSE /\ world = <<>> /\ faults = 0
    /\ before = Snapshot(FALSE, <<>>, {}, <<>>)
    /\ jira_client = FALSE
NextStore == CallSaveReport \/ CallCheckReportExists
SpecStore == InitStore /\ [][NextStore]_vars

\* Values of a config document: scalars, a list (not a mapping, like a
\* scalar), and mappings nested up to two levels.
ListValue == [kind |-> "list", v |-> "[a@example.com]", items |-> <<>>]
MergeValues ==
    { Scalar("a"), Scalar("b"), ListValue, EmptyMap,
      Map(("n1" :> Scalar("a"))),
      Map(("n1" :> Scalar("b")) @@ ("n2" :> ListValue)),
      Map(("n1" :> Map(("d" :> Scalar("a"))))),
      Map(("n1" :> Map(("e" :> Scalar("b")))) @@ ("n2" :> Scalar("a"))) }
\* Documents with the keys k1 and k2, any of them left out.
MergeDocs == {Map(f) : f \in UNION {[D -> MergeValues] : D \in SUBSET {"k1", "k2"}}}
\* The default file: absent, unparsable, or holding a document.
MergeFiles == {NoConfig, BadConfig} \cup {ConfigFile(d) : d \in MergeDocs}
\* config_overrides: none, or one entry, a mapping or not, for jira or for
\* another source.
MergeOverrides ==
    {<<>>} \cup {(k :> d) : k \in {"jira", "github"}, d \in MergeDocs \cup {Scalar("5")}}

\* One call merge_config_with_defaults(config_overrides, path, 'jira').
CallMergeConfig ==
    /\ ~mg.called
    /\ \E ov \in MergeOverrides, file \in MergeFiles :
         mg' = [called |-> TRUE, config_overrides |-> ov, file |-> file,
                config_key |-> "jira",
                out |-> merge_config_with_defaults(ov, file, "jira")]
    /\ UNCHANGED <<wr, rp, st, ld, race, reportsDir, pipeVars>>

InitMerge == wr = WrIdle /\ rp = <<>> /\ st = StIdle /\ mg = MgIdle /\ ld = LdIdle /\ race = RaceIdle /\ reportsDir = FALSE /\ Quiet
NextMerge == CallMergeConfig
SpecMerge == InitMerge /\ [][NextMerge]_vars

\* Config files for load_config_with_overrides: absent, unparsable, empty,
\* with one entry, with two entries.
LoadFiles ==
    {NoConfig, BadConfig, ConfigFile(EmptyMap), TeamConfig,
     ConfigFile(Map(("base_jql" :> Scalar("project = TEAM")) @@ ("max" :> Scalar("10"))))}
LoadDirs == [Sources -> LoadFiles]
\* config_overrides: none; a mapping for a source, replacing an entry or
\* adding one; a key that is no source; a value that is no mapping.
LoadOverrides ==
    { <<>>,
      ("jira" :> Map(("base_jql" :> Scalar("project = X")))),
      ("jira" :> Map(("extra" :> Scalar("1")))),
      ("team" :> EmptyMap),
      ("custom" :> Scalar("v")),
      ("github" :> Map(("repos" :> Scalar("org/repo")))) @@ ("custom" :> Map(("a" :> Scalar("b")))),
      ("jira" :> Scalar("5")),
      ("github" :> ListValue) }

\* One call load_config_with_overrides(config_overrides) in a working
\* directory whose config directory holds dir.
CallLoadConfig ==
    /\ ~ld.called
    /\ \E ov \in LoadOverrides, dir \in LoadDirs :
         LET r == load_config_with_overrides(ov, dir)
         IN  ld' = [called |-> TRUE, config_overrides |-> ov, dir |-> dir,
                    raised |-> r.raised, config |-> r.config]
    /\ UNCHANGED <<wr, rp, st, mg, race, reportsDir, pipeVars>>

InitLoad == wr = WrIdle /\ rp = <<>> /\ st = StIdle /\ mg = MgIdle /\ ld = LdIdle /\ race = RaceIdle /\ reportsDir = FALSE /\ Quiet
NextLoad == CallLoadConfig
SpecLoad == InitLoad /\ [][NextLoad]_vars

\* ------------------------------------------- two runs for one window
\* Two processes each run _generate_weekly_status(start_date='2024-01-10',
\* end_date='2024-01-09', regenerate=True, generate_summary=False) and get as
\* far as aggregation.  Nothing in the code serialises them: save_report is
\* "with open(report_path, 'w') as f: f.write(content)", so each process
\* truncates the file when it opens it and then writes its text from its own
\* offset 0.  The text reaches the file in one write() at the close, or in
\* two when the buffer was flushed once before.  Positions in the file are
\* counted in tokens.
Nul == Lit("\\0")

\* write() of chunk at offset off into a file holding file: what is there
\* beyond the chunk stays, and a gap before it reads as zero bytes.
Overlay(file, off, chunk) ==
    LET n == IF off + Len(chunk) > Len(file) THEN off + Len(chunk) ELSE Len(file)
    IN  [i \in 1..n |-> IF i > off /\ i <= off + Len(chunk) THEN chunk[i - off]
                        ELSE IF i <= Len(file) THEN file[i] ELSE Nul]

\* Lines 1053-1140 in process r: both collaborators, the combined report.
RaceGenerate(r) ==
    /\ race.run[r].pc = "idle"
    /\ SkipsCache(TRUE)
    /\ \E j \in JiraOutcomes, g \in GithubOutcomes, now \in ClockInputs :
         LET jira_report   == IF j.raised /\ ~JiraPropagates(j.raised)
                              THEN ErrorMarker("Jira", j.text) ELSE j.text
             github_report == IF g.raised THEN ErrorMarker("GitHub", g.text) ELSE g.text
             text == Enrich(CombinedReport(Wed10, Tue09, jira_report, github_report, now),
                            FALSE, None)
         IN  race' = [race EXCEPT !.run[r] = [pc |-> "saving", text |-> text, off |-> 0,
                                              out |-> NoResult]]
    /\ UNCHANGED <<wr, rp, st, mg, ld, reportsDir, pipeVars>>

\* save_report in process r, lines 209-212: get_report_path, then
\* open(report_path, 'w'), which makes the file or truncates it, or fails.
RaceOpen(r) ==
    /\ race.run[r].pc = "saving"
    /\ \E opened \in BOOLEAN :
         LET p == get_report_path(Wed10, Tue09, reportsDir)
         IN  /\ reportsDir' = p.dir
             /\ IF opened
                THEN /\ files' = [q \in DOMAIN files \cup {p.path} |->
                                     IF q = p.path THEN <<>> ELSE files[q]]
                     /\ race' = [race EXCEPT !.run[r].pc = "writing"]
                ELSE /\ files' = files
                     /\ race' = [race EXCEPT !.run[r].pc = "done",
                                             !.run[r].out = StorageError(race.run[r].text)]
    /\ UNCHANGED <<wr, rp, st, mg, ld, unreadable, restVars>>

\* f.write(content) and the close of the with block in process r, line 213:
\* the text, or its next part, reaches the file at the offset of this process;
\* after the last part save_report returns and the run returns the success
\* result (lines 1154-1161).  A write that fails makes save_report raise.
RaceWrite(r) ==
    /\ race.run[r].pc = "writing"
    /\ LET run == race.run[r]
           p   == ReportFileName(Wed10, Tue09)
           rest == Len(run.text) - run.off
       IN  \E k \in (IF run.off = 0 THEN 0..rest ELSE {0, rest}) :
             IF k = 0
             THEN /\ files' = files
                  /\ race' = [race EXCEPT !.run[r].pc = "done",
                                          !.run[r].out = StorageError(run.text)]
             ELSE /\ files' = [files EXCEPT ![p] =
                                  Overlay(files[p], run.off,
                                          SubSeq(run.text, run.off + 1, run.off + k))]
                  /\ race' = [race EXCEPT
                                !.last = r,
                                !.run[r].off = run.off + k,
                                !.run[r].pc = IF run.off + k = Len(run.text)
                                              THEN "done" ELSE "writing",
                                !.run[r].out = IF run.off + k = Len(run.text)
                                               THEN Success(p, run.text) ELSE NoResult]
    /\ UNCHANGED <<wr, rp, st, mg, ld, reportsDir, unreadable, restVars>>

InitRace ==
    /\ wr = WrIdle /\ rp = <<>> /\ st = StIdle /\ mg = MgIdle /\ ld = LdIdle /\ race = RaceIdle
    /\ \E d \in {Disk(FALSE, <<>>, {}), Disk(TRUE, (PathTue09 :> OldReport), {})} :
         reportsDir = d.dir /\ files = d.files /\ unreadable = d.unreadable
    /\ temps = <<>> /\ tempSeq = 0
    /\ pc = "idle" /\ args = <<>> /\ loc = LocInit /\ result = NoResult
    /\ trace = <<>> /\ prev = NoCall /\ again = FALSE /\ world = <<>> /\ faults = 0
    /\ before = Snapshot(FALSE, <<>>, {}, <<>>)
    /\ jira_client = FALSE
NextRace == \E r \in Procs : RaceGenerate(r) \/ RaceOpen(r) \/ RaceWrite(r)
SpecRace == InitRace /\ [][NextRace]_vars

\* The server after construction: no call made; the Reports directory holds
\* what earlier runs of the server left there.
Init ==
    /\ wr = WrIdle /\ rp = <<>> /\ st = StIdle /\ mg = MgIdle /\ ld = LdIdle /\ race = RaceIdle
    /\ \E d \in InitialDisks :
         reportsDir = d.dir /\ files = d.files /\ unreadable = d.unreadable
    /\ temps = <<>> /\ tempSeq = 0
    /\ pc = "idle" /\ args = <<>> /\ loc = LocInit /\ result = NoResult
    /\ trace = <<>> /\ prev = NoCall /\ again = FALSE /\ world = <<>> /\ faults = 0
    /\ before = Snapshot(reportsDir, files, unreadable, temps)
    /\ jira_client = FALSE

Next ==
    \/ Call
    \/ CallAgain
    \/ InitialisingClient
    \/ ValidatingWindow
    \/ CheckingCache
    \/ LoadingConfig
    \/ ValidatingCredentials
    \/ Importing
    \/ ResolvingJiraConfig
    \/ ResolvingGithubConfig
    \/ GeneratingJira
    \/ GeneratingGithub
    \/ CleaningUp
    \/ Combining
    \/ Persisting

Spec == Init /\ [][Next]_vars

\* ================================================================ claims
\* Reference calendar, independent of the day numbers the model computes
\* with: the weekday by Zeller's congruence on year, month and day, and
\* "k days earlier" by stepping the calendar back one day at a time.
RefYmd(s) == [y |-> Value(s[1]), m |-> Value(s[2]), d |-> Value(s[3])]

RefDayName(s) ==
    LET c == RefYmd(s)
        m == IF c.m < 3 THEN c.m + 12 ELSE c.m
        y == IF c.m < 3 THEN c.y - 1 ELSE c.y
        h == (c.d + ((13 * (m + 1)) \div 5) + (y % 100) + ((y % 100) \div 4)
                  + ((y \div 100) \div 4) + 5 * (y \div 100)) % 7
        names == <<"Saturday", "Sunday", "Monday", "Tuesday", "Wednesday",
                   "Thursday", "Friday">>
    IN  names[h + 1]

RefPrevDay(c) ==
    IF c.d > 1 THEN [c EXCEPT !.d = c.d - 1]
    ELSE IF c.m > 1 THEN [y |-> c.y, m |-> c.m - 1, d |-> DaysInMonth(c.y, c.m - 1)]
    ELSE [y |-> c.y - 1, m |-> 12, d |-> 31]

RECURSIVE RefDaysBefore(_, _)
RefDaysBefore(c, k) == IF k = 0 THEN c ELSE RefDaysBefore(RefPrevDay(c), k - 1)

\* The YYYY-MM-DD text of a calendar day.
RefText(c) == <<Digits(c.y, 4), Digits(c.m, 2), Digits(c.d, 2)>>

Supplied(s) == s # None /\ Parses(s)

\* ------------------------------------------- generate_weekly_status
\* The file of the window the running call has resolved.
WindowFile == ReportFile(loc.calc_start_date, loc.calc_end_date)

\* A readable, non-empty report file at path p on disk d.
Servable(d, p) == p \in DOMAIN d.files /\ p \notin d.unreadable /\ d.files[p] # <<>>

\* How often the call did op, and after which of them an exception came back.
Count(op) == Cardinality({i \in 1..Len(trace) : trace[i].op = op})
Raised(op) ==
    \E i \in 1..(Len(trace) - 1) : trace[i].op = op /\ trace[i + 1].op = "raised"

Collaborators == {"WeeklyJiraSummary", "WeeklyGitHubSummary"}
NoCollaborator == \A i \in 1..Len(trace) : trace[i].op \notin Collaborators
NoTempFile ==
    /\ \A i \in 1..Len(trace) : trace[i].op # "create_temp_config_file"
    /\ temps = before.temps
ReportsUntouched == files = before.files /\ Count("save_report") = 0

\* C1: with regenerate false and a readable, non-empty report file for the
\* resolved window, the call returns the content of that file exactly as it
\* is stored, with the location of the file; it invokes no collaborator,
\* creates no temp config file and does not write the report file.
C1_CacheHitVerbatim ==
    (pc = "done" /\ loc.calc_start_date # None /\ "regenerate" \in DOMAIN args
        /\ ~args.regenerate /\ Servable(before, WindowFile)) =>
            /\ result = FoundExisting(WindowFile, before.files[WindowFile])
            /\ NoCollaborator
            /\ NoTempFile
            /\ ReportsUntouched

\* C2: when a servable report is stored for the window and regenerate is
\* false, the second of two consecutive calls with identical arguments
\* returns what the first returned, invokes no collaborator and leaves the
\* stored report as it was.
C2_RepeatedHit ==
    (pc = "done" /\ again /\ args = prev.args /\ ~prev.args.regenerate
        /\ loc.calc_start_date # None /\ Servable(prev.before, WindowFile)) =>
            /\ result = prev.result
            /\ NoCollaborator
            /\ files = before.files
            /\ files[WindowFile] = prev.before.files[WindowFile]

C2_Witness ==
    /\ pc = "done" /\ again /\ args = prev.args /\ ~prev.args.regenerate
    /\ loc.calc_start_date # None /\ Servable(prev.before, WindowFile)
    /\ result.body # <<>> /\ result.file = WindowFile

\* The section of a source in the report: the error marker with the message
\* of an outcome that raised, or the text of one that did not.
Section(source, outcomes, failed) ==
    {IF failed
     THEN <<Lit("**Error generating "), Lit(source), Lit(" report:** ")>> \o o.text
          \o <<LF, LF>>
     ELSE o.text : o \in {x \in outcomes : x.raised = failed}}

HasSections(body, j, g) ==
    LET want == Rule \o j \o Rule \o g \o Rule
    IN  \E i \in 1..Len(body) :
            i + Len(want) - 1 <= Len(body) /\ SubSeq(body, i, i + Len(want) - 1) = want

\* C3: when a collaborator raises, the other one is still invoked, once; the
\* report has the error marker with the message in the place of the failed
\* source and the full text of a source that succeeded, Jira first; the
\* report is handed to save_report, and the call returns the success result
\* with the window's file holding the report, unless writing the file
\* failed.
C3_PartialFailure ==
    (pc = "done" /\ (Raised("WeeklyJiraSummary") \/ Raised("WeeklyGitHubSummary"))) =>
        /\ Count("WeeklyJiraSummary") = 1
        /\ Count("WeeklyGitHubSummary") = 1
        /\ \E j \in Section("Jira", JiraOutcomes, Raised("WeeklyJiraSummary")),
              g \in Section("GitHub", GithubOutcomes, Raised("WeeklyGitHubSummary")) :
                HasSections(result.body, j, g)
        /\ Count("save_report") = 1
        /\ result.kind \in {Success(NoFile, <<>>).kind, StorageError(<<>>).kind}
        /\ faults = 0 => result.kind = Success(NoFile, <<>>).kind
        /\ result.kind = Success(NoFile, <<>>).kind =>
              /\ result.file = WindowFile
              /\ result.size = Len(result.body)
              /\ files[WindowFile] = result.body

C3_Witness ==
    /\ pc = "done"
    /\ Raised("WeeklyJiraSummary") /\ ~Raised("WeeklyGitHubSummary")
    /\ result.kind = Success(NoFile, <<>>).kind
    /\ files[WindowFile] = result.body

\* The credentials that are absent, given the environment and the argument.
RefAbsent(env, token) ==
    SelectSeq(Creds, LAMBDA c : c \notin env /\ ~(c = "GITHUB_TOKEN" /\ token # None))

PastCache ==
    /\ pc = "done" /\ loc.calc_start_date # None
    /\ result.kind # FoundExisting(NoFile, <<>>).kind

\* C4: on a run that is past the cache check, when any of the four
\* credentials is absent the call returns the error listing exactly the
\* absent names; no collaborator is invoked, no temp config file is created
\* and no report file is written or changed.  (What the call has not read of
\* its arguments and of the environment can have any value.)
C4_MissingCredentials ==
    PastCache =>
        \A env \in (IF "env" \in DOMAIN world THEN {world.env} ELSE WorldSets.env),
           token \in (IF "github_token" \in DOMAIN args THEN {args.github_token}
                      ELSE TokenInputs) :
            RefAbsent(env, token) # <<>> =>
                /\ result = MissingCredentials(RefAbsent(env, token))
                /\ NoCollaborator
                /\ NoTempFile
                /\ ReportsUntouched

\* A supplied date has the wrong weekday.
RefInvalid(s, e) ==
    \/ s # None /\ RefDayName(s) # "Wednesday"
    \/ e # None /\ RefDayName(e) # "Tuesday"

\* C5: when a supplied start date is not a Wednesday or a supplied end date
\* is not a Tuesday, the call returns "Error: ..." with the ValueError's
\* message and has done nothing else: no cache lookup, no Reports directory
\* made, no configuration loaded, no temp file, no collaborator, no write.
C5_InvalidWindowNoEffect ==
    (pc = "done" /\ RefInvalid(args.start_date, args.end_date)) =>
        /\ result.kind = "Error"
        /\ result.err.raised
        /\ result.err.day = (IF args.start_date # None
                                    /\ RefDayName(args.start_date) # "Wednesday"
                             THEN RefDayName(args.start_date)
                             ELSE RefDayName(args.end_date))
        /\ result.body = <<>>
        /\ trace = <<>>
        /\ Snapshot(reportsDir, files, unreadable, temps) = before

C5_Witness ==
    /\ pc = "done" /\ RefInvalid(args.start_date, args.end_date)
    /\ args.start_date = Wed10
    /\ before.files # <<>>
    /\ result.kind = "Error"

\* ------------------------------------------------- temp config files
\* The temp config files on disk that the running call has made.
TempFilesLeft == DOMAIN temps \ DOMAIN before.temps

\* C12: when a run has returned, every temp config file made during it has
\* been removed, whether the collaborators succeeded or raised or the making
\* of a temp file failed part-way; the only files left are those whose
\* removal was attempted and failed, and such a failure leaves the result a
\* normal one.
C12_TempFilesRemoved ==
    pc = "done" =>
        /\ TempFilesLeft \subseteq Range(loc.temp_files_to_cleanup)
        /\ (TempFilesLeft # {} /\ ~loc.raising) => result.kind # Unexpected.kind

\* The config file each call of collaborator op was constructed with.
ConfigsGiven(op) == {trace[i].ref : i \in {k \in 1..Len(trace) : trace[k].op = op}}

\* The default config file of a source, by its place.
RefDefault(source) == [kind |-> "default", name |-> source, n |-> 0]

\* The call tried to make a temp config file for the source.
TempTried(source) ==
    \E i \in 1..Len(trace) :
        /\ trace[i].op = "create_temp_config_file"
        /\ trace[i].ref \in {RefDefault(source)}
                            \cup {[kind |-> "temp", name |-> source \o "_mcp_", n |-> k] :
                                    k \in 1..tempSeq}

\* C13: a call without config_overrides (absent or empty) makes no temp
\* config file, and each collaborator it constructs gets the default config
\* file of its source.
C13_NoOverridesNoTemp ==
    (pc = "done" /\ "config_overrides" \in DOMAIN args /\ DOMAIN args.config_overrides = {}) =>
        /\ Count("create_temp_config_file") = 0
        /\ Count("os.unlink") = 0
        /\ temps = before.temps
        /\ ConfigsGiven("WeeklyJiraSummary") \subseteq {RefDefault("jira")}
        /\ ConfigsGiven("WeeklyGitHubSummary") \subseteq {RefDefault("github")}

C13_Witness ==
    /\ pc = "done" /\ "config_overrides" \in DOMAIN args /\ DOMAIN args.config_overrides = {}
    /\ ConfigsGiven("WeeklyJiraSummary") = {RefDefault("jira")}
    /\ ConfigsGiven("WeeklyGitHubSummary") = {RefDefault("github")}

\* C14: a source gets a temp config file only when config_overrides has an
\* entry for it; a source without an entry gets its default config file and
\* no temp file is made for it.
C14_TempOnlyForOverriddenSource ==
    (pc = "done" /\ "config_overrides" \in DOMAIN args) =>
        /\ "jira" \notin DOMAIN args.config_overrides =>
              /\ ~TempTried("jira")
              /\ ConfigsGiven("WeeklyJiraSummary") \subseteq {RefDefault("jira")}
        /\ "github" \notin DOMAIN args.config_overrides =>
              /\ ~TempTried("github")
              /\ ConfigsGiven("WeeklyGitHubSummary") \subseteq {RefDefault("github")}

\* --------------------------------------------- merge_config_with_defaults
\* r is the deep merge of the mappings d (defaults) and o (override): it has
\* the keys of both; a key the override does not name keeps the default; a
\* key where both hold mappings is merged the same way; at any other key the
\* override's value stands.
RECURSIVE RefDeepMerged(_, _, _)
RefDeepMerged(r, d, o) ==
    /\ DOMAIN r = DOMAIN d \cup DOMAIN o
    /\ \A k \in DOMAIN r :
        IF k \notin DOMAIN o THEN r[k] = d[k]
        ELSE IF k \in DOMAIN d /\ d[k].kind = "map" /\ o[k].kind = "map"
             THEN r[k].kind = "map" /\ RefDeepMerged(r[k].items, d[k].items, o[k].items)
             ELSE r[k] = o[k]

\* The defaults the file gives: its document, the empty mapping when it is
\* missing or cannot be loaded.
RefDefaults(file) == IF file.state = "ok" THEN file.doc.items ELSE <<>>

\* C15: merge_config_with_defaults returns the deep merge of the defaults
\* with config_overrides[config_key]; the defaults unchanged when there is
\* no entry for the key or the entry is not a mapping; the entry itself when
\* the defaults are empty.
C15_DeepMerge ==
    mg.called =>
        LET d  == RefDefaults(mg.file)
            ov == mg.config_overrides
            k  == mg.config_key
        IN  /\ mg.out.kind = "map"
            /\ IF k \in DOMAIN ov /\ ov[k].kind = "map"
               THEN /\ RefDeepMerged(mg.out.items, d, ov[k].items)
                    /\ DOMAIN d = {} => mg.out = ov[k]
               ELSE mg.out.items = d

C15_Witness ==
    /\ mg.called
    /\ "jira" \in DOMAIN mg.config_overrides
    /\ mg.file.state = "ok"
    /\ \E k \in DOMAIN mg.out.items :
          /\ k \in DOMAIN mg.file.doc.items /\ k \in DOMAIN mg.config_overrides["jira"].items
          /\ mg.out.items[k] # mg.file.doc.items[k]
          /\ mg.out.items[k] # mg.config_overrides["jira"].items[k]
          /\ \E n \in DOMAIN mg.out.items[k].items :
                /\ n \in DOMAIN mg.file.doc.items[k].items
                /\ n \in DOMAIN mg.config_overrides["jira"].items[k].items
                /\ mg.out.items[k].items[n] # mg.file.doc.items[k].items[n]
                /\ mg.out.items[k].items[n] # mg.config_overrides["jira"].items[k].items[n]

\* ------------------------------------------------------- persistence
\* The text holds the token somewhere.
Holds(text, token) == \E i \in 1..Len(text) : text[i] = token

\* The summary block is due: a summary is asked for and every replacement
\* field of the prompt in use is {report_content}.
SummaryDue ==
    /\ args.generate_summary
    /\ ~Holds(IF args.summary_prompt # <<>> THEN args.summary_prompt
              ELSE DEFAULT_SUMMARY_PROMPT, UnknownField)

\* C16: when writing the report file fails, the run returns "Error: Failed to
\* save report" with the whole report in it: both sections, and the summary
\* block when one was appended; save_report has raised the failure to the
\* handler.
C16_StorageError ==
    (pc = "done" /\ Raised("save_report")) =>
        /\ result.kind = "Error: Failed to save report"
        /\ result.body = loc.combined_report
        /\ HasSections(result.body, loc.jira_report, loc.github_report)
        /\ Holds(result.body, Lit("# Weekly Team Status Report"))
        /\ SummaryDue <=> Holds(result.body, Lit("## Executive Summary"))

C16_Witness ==
    /\ pc = "done" /\ Raised("save_report")
    /\ SummaryDue
    /\ Holds(result.body, Lit("## Executive Summary"))
    /\ result.kind = "Error: Failed to save report"

\* ------------------------------------------------------------ the summary
\* The text holds the wanted text as a run of consecutive tokens.
ContainsSeq(text, want) ==
    \E i \in 1..(Len(text) + 1) :
        i + Len(want) - 1 <= Len(text) /\ SubSeq(text, i, i + Len(want) - 1) = want

\* The report before the summary step, and the template in use.
BaseReport ==
    CombinedReport(loc.calc_start_date, loc.calc_end_date, loc.jira_report,
                   loc.github_report, loc.now)
TemplateInUse ==
    IF args.summary_prompt # <<>> THEN args.summary_prompt ELSE DEFAULT_SUMMARY_PROMPT

\* The template with each {report_content} replaced by the content.
RefFilled(template, content) ==
    LET n == Cardinality({i \in 1..Len(template) : template[i] = Placeholder})
        at(i) == Cardinality({j \in 1..(i - 1) : template[j] = Placeholder})
        len == Len(template) + n * (Len(content) - 1)
        \* the template position and offset that output position p comes from
        src(p) == CHOOSE i \in 1..Len(template) :
                    LET start == i + at(i) * (Len(content) - 1)
                        width == IF template[i] = Placeholder THEN Len(content) ELSE 1
                    IN  start <= p /\ p < start + width
    IN  [p \in 1..len |->
            LET i == src(p)
            IN  IF template[i] = Placeholder
                THEN content[p - (i + at(i) * (Len(content) - 1)) + 1]
                ELSE template[i]]

\* C17: with summary generation on, the Executive Summary section of the
\* report holds the filled template: the template in use with its
\* {report_content} field replaced by the combined report.
C17_SummaryHoldsFilledTemplate ==
    (pc = "done" /\ Count("save_report") = 1 /\ SummaryDue) =>
        /\ Holds(result.body, Lit("## Executive Summary"))
        /\ ContainsSeq(result.body, RefFilled(TemplateInUse, BaseReport))

\* C18: without a summary block due (generate_summary false, or a prompt
\* whose substitution fails) the report is the combined text, unchanged: it
\* is what is returned and what is written, and the run ends in the success
\* result when the file can be written.
C18_ReportUnchanged ==
    (pc = "done" /\ Count("save_report") = 1 /\ ~SummaryDue) =>
        /\ result.body = BaseReport
        /\ ~Holds(result.body, Lit("## Executive Summary"))
        /\ ~Raised("save_report") =>
              /\ result.kind = "Weekly status report generated successfully"
              /\ result.file = WindowFile
              /\ files[WindowFile] = BaseReport

C18_Witness ==
    /\ pc = "done" /\ Count("save_report") = 1
    /\ args.generate_summary /\ Holds(args.summary_prompt, UnknownField)
    /\ result.kind = "Weekly status report generated successfully"
    /\ files[WindowFile] = BaseReport

\* A run with regenerate=true that got as far as the cache step, and one in
\* which the four credentials were found present.
Regenerating ==
    /\ pc = "done" /\ loc.calc_start_date # None
    /\ "regenerate" \in DOMAIN args /\ args.regenerate
CredentialsPresent ==
    /\ "github_token" \in DOMAIN args
    /\ {"JIRA_SERVER", "JIRA_EMAIL", "JIRA_API_TOKEN"} \subseteq world.env
    /\ (args.github_token # None \/ "GITHUB_TOKEN" \in world.env)
Aggregated == result.kind \in {Success(NoFile, <<>>).kind, StorageError(<<>>).kind}
Succeeded == result.kind = Success(NoFile, <<>>).kind
NoOtherFile ==
    /\ DOMAIN before.files \subseteq DOMAIN files
    /\ DOMAIN files \subseteq DOMAIN before.files \cup {WindowFile}
    /\ \A p \in DOMAIN before.files \ {WindowFile} : files[p] = before.files[p]

TextResults ==
    {InvalidWindow(NoError).kind, FoundExisting(NoFile, <<>>).kind,
     MissingCredentials(<<>>).kind, ImportFailed.kind, StorageError(<<>>).kind,
     Success(NoFile, <<>>).kind, Unexpected.kind}

\* C20: every generate_weekly_status tool call ends with a text result; no
\* exception leaves the handler, whichever step fails (client
\* initialisation included).
C20_AlwaysTextResult ==
    /\ pc # "raised"
    /\ pc = "done" => result.kind \in TextResults

\* A run with regenerate=false that got as far as the cache step.
Consulting ==
    /\ pc = "done" /\ loc.calc_start_date # None
    /\ "regenerate" \in DOMAIN args /\ ~args.regenerate
\* The window has no report file, or one that cannot be read.
NothingToRead == WindowFile \notin DOMAIN before.files \/ WindowFile \in before.unreadable
\* The results a run can end in once it is past the cache step.
AfterCache ==
    {Unexpected.kind, MissingCredentials(<<>>).kind, ImportFailed.kind,
     StorageError(<<>>).kind, Success(NoFile, <<>>).kind}

AfterSuccess ==
    /\ pc = "done" /\ again /\ loc.calc_start_date # None
    /\ prev.result.kind = "Weekly status report generated successfully"

\* C26: after a run that ends in the success result the file of the window
\* holds exactly the returned report and the reported size is its length;
\* the call that follows it for the same window with regenerate=false is a
\* cache hit that returns this same text and invokes no collaborator.
C26_SuccessThenHit ==
    /\ (pc = "done" /\ Succeeded) =>
          /\ result.file = WindowFile
          /\ files[WindowFile] = result.body
          /\ result.size = Len(result.body)
    /\ AfterSuccess =>
          /\ result = FoundExisting(WindowFile, prev.result.body)
          /\ NoCollaborator

\* The places in the trace where the call did one of ops; every place of
\* ops1 is before every place of ops2.
Places(ops) == {i \in 1..Len(trace) : trace[i].op \in ops}
Before(ops1, ops2) == \A i \in Places(ops1), k \in Places(ops2) : i < k
\* The files the call did op on.
Refs(op) == {trace[i].ref : i \in Places({op})}

\* C27: a run that reaches aggregation invokes each collaborator exactly
\* once, Jira before GitHub, whether they raise or not; the report has the
\* Jira section before the GitHub section; save_report is called once, after
\* both collaborators have ended and after the removal of every temp config
\* file the run made.
C27_AggregationOrder ==
    (pc = "done" /\ Count("WeeklyJiraSummary") >= 1) =>
        /\ \A c \in Collaborators : Count(c) = 1
        /\ Before({"WeeklyJiraSummary"}, {"WeeklyGitHubSummary"})
        /\ Count("save_report") = 1
        /\ Before(Collaborators, {"os.unlink", "save_report"})
        /\ Before({"os.unlink"}, {"save_report"})
        /\ Raised("WeeklyGitHubSummary") =>
              \E i \in Places({"WeeklyGitHubSummary"}), k \in Places({"save_report"}) :
                  i + 1 < k
        /\ Refs("os.unlink") = Refs("create_temp_config_file")
        /\ TempFilesLeft \subseteq Refs("os.unlink")
        /\ \E j \in Section("Jira", JiraOutcomes, Raised("WeeklyJiraSummary")),
              g \in Section("GitHub", GithubOutcomes, Raised("WeeklyGitHubSummary")) :
                HasSections(result.body, j, g)
        /\ Aggregated

\* C27 witness: Jira raised, GitHub did not, two temp config files were made
\* and removed, and the report was saved.
C27_Witness ==
    /\ pc = "done" /\ Succeeded
    /\ Raised("WeeklyJiraSummary") /\ ~Raised("WeeklyGitHubSummary")
    /\ Count("WeeklyGitHubSummary") = 1
    /\ Count("os.unlink") = 2 /\ TempFilesLeft = {}
    /\ trace[Len(trace)].op = "save_report"

\* The window has a report file that can be read, whatever it holds.
Stored == WindowFile \in DOMAIN before.files /\ WindowFile \notin before.unreadable

\* C28: with regenerate=false and a readable report file for the window,
\* whatever its content (the empty content included), the run is a cache hit:
\* it returns the found-existing result for that file and invokes no
\* collaborator.
C28_HitWhateverContent ==
    (Consulting /\ Stored) =>
        /\ result.kind = "Found existing report"
        /\ result.file = WindowFile
        /\ NoCollaborator
        /\ ReportsUntouched

\* The call before the running one got an exception from collaborator op.
PrevRaised(op) ==
    \E i \in 1..(Len(prev.trace) - 1) :
        prev.trace[i].op = op /\ prev.trace[i + 1].op = "raised"
\* The error marker of a source, up to the message.
MarkerHead(source) == <<Lit("**Error generating "), Lit(source), Lit(" report:** ")>>

\* C29: a report with an error marker in the place of one or both sources is
\* stored like any other: the call that follows for the same window with
\* regenerate=false returns that stored report, markers included, and
\* invokes no collaborator.
C29_ErrorReportCached ==
    (AfterSuccess /\ (PrevRaised("WeeklyJiraSummary") \/ PrevRaised("WeeklyGitHubSummary"))) =>
        /\ before.files[WindowFile] = prev.result.body
        /\ result = FoundExisting(WindowFile, before.files[WindowFile])
        /\ PrevRaised("WeeklyJiraSummary") => ContainsSeq(result.body, MarkerHead("Jira"))
        /\ PrevRaised("WeeklyGitHubSummary") => ContainsSeq(result.body, MarkerHead("GitHub"))
        /\ NoCollaborator
        /\ ReportsUntouched

\* What a reader of the stored text gets: a line feed for every "\r\n" and
\* for every other "\r".
RefRead(t) ==
    LET gone == Lit("")
        seen == [i \in 1..Len(t) |->
                    IF t[i] = LF /\ i > 1 /\ t[i - 1] = CR THEN gone
                    ELSE IF t[i] = CR THEN LF ELSE t[i]]
    IN  SelectSeq(seen, LAMBDA x : x # gone)

\* C30: with regenerate=false the result is fixed by the window and the
\* stored report alone: whenever the window has a readable report file the
\* call returns the found-existing result for it, without having looked at
\* config_overrides, github_token or the summary arguments, and no call ends
\* on missing environment credentials while a stored report is there for it.
C30_KeyedByWindowAlone ==
    /\ (Consulting /\ Stored) =>
          /\ result.kind = "Found existing report"
          /\ result.file = WindowFile
          /\ result.body = RefRead(before.files[WindowFile])
          /\ DOMAIN args = {"start_date", "end_date", "regenerate"}
    /\ pc = "raised" => \A p \in DOMAIN before.files : ~Servable(before, p)

\* ------------------------------------------------ two concurrent runs
\* Both runs have finished and both have saved their report.
BothSaved ==
    \A r \in Procs : race.run[r].pc = "done"
                     /\ race.run[r].out.kind = "Weekly status report generated successfully"

\* C21: once two concurrent regenerate runs for one window have finished, the
\* report file of the window holds exactly the text of the run that wrote
\* last, and each run has returned its own text.
C21_LastWriterWins ==
    BothSaved =>
        /\ files[ReportFile(Wed10, Tue09)] = race.run[race.last].text
        /\ \A r \in Procs : race.run[r].out.body = race.run[r].text

\* ------------------------------------------ load_config_with_overrides
\* What a config file contributes: its document, or nothing when it is
\* absent or fails to load.
RefBase(file) == IF file.state = "ok" THEN file.doc.items ELSE <<>>

\* C25: load_config_with_overrides returns for every overrides input; the
\* result has the keys jira, github and team, each the loaded document or an
\* empty map; an override key that is a source updates that source's entries
\* one level deep and keeps its other entries; any other override key is
\* inserted as given.
C25_LoadConfig ==
    ld.called =>
        LET ov == ld.config_overrides
            c  == ld.config
        IN  /\ ~ld.raised
            /\ DOMAIN c = Sources \cup DOMAIN ov
            /\ \A k \in Sources \ DOMAIN ov :
                  c[k].kind = "map" /\ c[k].items = RefBase(ld.dir[k])
            /\ \A k \in DOMAIN ov \ Sources : c[k] = ov[k]
            /\ \A k \in DOMAIN ov \cap Sources :
                  /\ c[k].kind = "map"
                  /\ DOMAIN c[k].items = DOMAIN RefBase(ld.dir[k]) \cup DOMAIN ov[k].items
                  /\ \A j \in DOMAIN c[k].items :
                        c[k].items[j] = IF j \in DOMAIN ov[k].items THEN ov[k].items[j]
                                        ELSE RefBase(ld.dir[k])[j]

\* ------------------------------------ save_report, check_report_exists
\* C11: save_report(text, window) that returns, followed by
\* check_report_exists(window), gives exactly text, and save_report returned
\* the location get_report_path gives for the window.
C11_RoundTrip ==
    (st.phase = "checked" /\ ~st.raised /\ st.asked = <<st.start_date, st.end_date>>) =>
        /\ st.found
        /\ st.got = st.content
        /\ st.path = [dir |-> "Reports", prefix |-> "Weekly_Report_", first |-> st.start_date,
                      sep |-> "_to_", second |-> st.end_date, ext |-> ".md"]

\* C6: get_week_range raises ValueError naming the date's actual weekday for
\* every supplied start date that is not a Wednesday, whatever the end date
\* is (the start is checked first), and raises for every supplied end date
\* that is not a Tuesday, naming that weekday when the start passed.
C6_InvalidWindow ==
    wr.called =>
        LET s == wr.start_date
            e == wr.end_date
        IN  /\ (Supplied(s) /\ RefDayName(s) # "Wednesday") =>
                  wr.out = ValueError("start_date must be a Wednesday", s, RefDayName(s))
            /\ (Supplied(e) /\ RefDayName(e) # "Tuesday") =>
                  /\ wr.out.raised
                  /\ (s = None \/ (Supplied(s) /\ RefDayName(s) = "Wednesday")) =>
                        wr.out = ValueError("end_date must be a Tuesday", e, RefDayName(e))

\* C6 witness: both dates are supplied on wrong weekdays and the error is the
\* start date's.
C6_Witness ==
    /\ wr.called
    /\ Supplied(wr.start_date) /\ RefDayName(wr.start_date) = "Friday"
    /\ Supplied(wr.end_date) /\ RefDayName(wr.end_date) = "Monday"
    /\ wr.out.why = "start_date must be a Wednesday"

WednesdayNoEnd ==
    /\ wr.called
    /\ Supplied(wr.start_date) /\ RefDayName(wr.start_date) = "Wednesday"
    /\ wr.end_date = None

WednesdayAndTuesday ==
    /\ wr.called
    /\ Supplied(wr.start_date) /\ RefDayName(wr.start_date) = "Wednesday"
    /\ Supplied(wr.end_date) /\ RefDayName(wr.end_date) = "Tuesday"

\* A date string with two-digit month and day.
Padded(s) == Len(s[2]) = 2 /\ Len(s[3]) = 2

\* C22 as stated: with a Wednesday start and a Tuesday end supplied,
\* get_week_range succeeds and returns the two strings unchanged, whatever
\* the distance or order between the dates.
C22_Original ==
    WednesdayAndTuesday =>
        /\ ~wr.out.raised
        /\ wr.out.start = wr.start_date
        /\ wr.out.end = wr.end_date

\* C22 amended: with a Wednesday start and a Tuesday end supplied,
\* get_week_range succeeds whatever the distance or order between the dates
\* and returns the same two calendar days written YYYY-MM-DD with zero
\* padding: a string already in that form is returned unchanged.
C22_NoDistanceCheck ==
    WednesdayAndTuesday =>
        /\ ~wr.out.raised
        /\ wr.out.start = RefText(RefYmd(wr.start_date))
        /\ wr.out.end = RefText(RefYmd(wr.end_date))
        /\ Padded(wr.start_date) => wr.out.start = wr.start_date
        /\ Padded(wr.end_date) => wr.out.end = wr.end_date

\* C22 witness: the end is six days later than the start.
C22_Witness ==
    /\ WednesdayAndTuesday
    /\ wr.start_date = <<<<2,0,2,4>>, <<0,1>>, <<0,3>>>>
    /\ wr.end_date = <<<<2,0,2,4>>, <<0,1>>, <<0,9>>>>
    /\ wr.out = Returned(wr.start_date, wr.end_date)

\* C23: whenever the end date is omitted, the returned end is the returned
\* start minus 7 days; an omitted start is today, whatever weekday today is.
C23_DefaultEnd ==
    (wr.called /\ wr.end_date = None) =>
        /\ ~wr.out.raised =>
              wr.out.end = RefText(RefDaysBefore(RefYmd(wr.out.start), 7))
        /\ Supplied(wr.start_date) /\ RefDayName(wr.start_date) = "Wednesday" =>
              ~wr.out.raised /\ wr.out.start = RefText(RefYmd(wr.start_date))
        /\ wr.start_date = None =>
              ~wr.out.raised /\ wr.out.start = Strftime(wr.now)

\* C23 witness: both dates omitted on Sunday 2023-12-31.
C23_Witness ==
    /\ wr.called /\ wr.start_date = None /\ wr.end_date = None
    /\ wr.out = Returned(<<<<2,0,2,3>>, <<1,2>>, <<3,1>>>>, <<<<2,0,2,3>>, <<1,2>>, <<2,4>>>>)
    /\ RefDayName(wr.out.start) = "Sunday"

C10_EarlierDateFirst ==
    \A i \in 1..Len(rp) :
        /\ rp[i].out.first = rp[i].end_date
        /\ rp[i].out.second = rp[i].start_date

====
